---------------------------- MODULE Spec2Model ----------------------------
(***************************************************************************)
(* Model of the LEDCON power controller (src/src/Power/LEDCON/Task.cpp).   *)
(*                                                                         *)
(* Time is counted in whole seconds (the bounded wait of the main loop is  *)
(* 1.0 s); heartbeat timestamps are counted in hundredths of a second so   *)
(* that the 1.0 s tolerance of the heartbeat handler can be told from      *)
(* 1.01 s.  A controller is the record                                     *)
(*   [state, alive, pdown, timer, out]                                     *)
(* of the task's activation state, m_slave_alive, m_ccu_pdown, m_act_timer *)
(* and the messages dispatched by the handler that is running.  Every      *)
(* method of the task is an operator from controller to controller, and    *)
(* every action of the model runs one handler as a whole.                  *)
(***************************************************************************)
EXTENDS Integers, Sequences, FiniteSets

VARIABLES
  now,            \* local clock, seconds
  actState,       \* activation state kept by the task framework
  m_slave_alive,  \* Task::m_slave_alive
  m_ccu_pdown,    \* Task::m_ccu_pdown
  m_act_timer,    \* Task::m_act_timer: [last |-> time of setTop, top |-> seconds]
  m_slave_id,     \* Task::m_slave_id
  actTime,        \* getActivationTime()
  deactTime,      \* getDeactivationTime()
  stopped,        \* the main loop has seen stopping() and returned
  polled,         \* the loop body has run since the last wake
  out,            \* messages dispatched by the last handler
  ev,             \* the last handler run and its input
  repeated,       \* the last two handlers run were the same, on the same input
  lastChan,       \* last PowerChannelControl operation dispatched
  status,         \* last entity state reported
  attemptReq,     \* time of the last accepted activation request
  qualBefore,     \* a qualifying heartbeat arrived in this attempt before
                  \* attemptReq + actTime
  attemptFails,   \* activation failures reported since attemptReq
  attemptOff,     \* channel OFF commands since attemptReq
  qualSeen,       \* a qualifying heartbeat was handled while Activating since
                  \* attemptReq
  deactReq,       \* time of the last accepted deactivation request
  firstPd,        \* time of the first addressed POWER_DOWN taken while Idle
                  \* since the last POWER_UP or activation request
  lastPd,         \* time of the last such POWER_DOWN
  cascadeFires,   \* cut-offs made by checkPowerDown since the last POWER_DOWN
  lastIp,         \* time of the last power-down-in-place directive sent since
                  \* the last accepted activation request
  m_id,           \* Reporter Task::m_id
  m_dispatcher,   \* Reporter Task::m_dispatcher: the tickets it holds
  loopback,       \* ReportControl messages the reporter sent to itself
  replies,        \* replies dispatched by the last handler of the reporter
  entityState,    \* status code last reported by the reporter
  lastMsg,        \* the last ReportControl message consumed
  handled,        \* ReportControl messages consumed so far
  watch,          \* which of the observations below is kept in this run
  sent            \* <<time, what>> of every logged input and every command
                  \* dispatched so far

ledconVars == <<now, actState, m_slave_alive, m_ccu_pdown, m_act_timer, m_slave_id,
          actTime, deactTime, stopped, polled, out, ev, repeated, lastChan, status,
          attemptReq, qualBefore, attemptFails, attemptOff, deactReq,
          firstPd, lastPd, cascadeFires, watch, sent, qualSeen, lastIp>>

reporterVars == <<m_id, m_dispatcher, loopback, replies, entityState, lastMsg, handled>>

vars == <<ledconVars, reporterVars>>

---------------------------------------------------------------------------
(* Bounds of the model. *)

\* Last second of the clock.
MaxTime == 7
\* Largest activation timeout tried, seconds.
MaxActivationTime == 3
\* Largest deactivation timeout tried, seconds.
MaxDeactivationTime == 2
\* Last second of the clock in the end-to-end scenario.
E2EMaxTime == 21

---------------------------------------------------------------------------
(* Inputs. *)

\* System identifiers seen on the bus.
SystemIds == {7, 42}

\* Heartbeat time stamp minus local clock, hundredths of a second.
Deltas == {-101, -100, 100, 101}

\* Operation codes of IMC::PowerOperation.
PowerOps == {"POP_PWR_UP", "POP_PWR_DOWN", "POP_PWR_DOWN_ABORT"}

\* No such time.
NoTime == 0 - 1

\* Largest accepted distance of a heartbeat's time stamp from the local
\* clock (1.0 s), hundredths of a second.
Tolerance == 100

\* The bounded wait of the main loop (1.0 s), seconds.
PollInterval == 1

Event(kind, id, op, delta) == [kind |-> kind, id |-> id, op |-> op, delta |-> delta]

Abs(x) == IF x < 0 THEN -x ELSE x

Count(seq, m) == Cardinality({i \in DOMAIN seq : seq[i] = m})

Has(seq, m) == \E i \in DOMAIN seq : seq[i] = m

---------------------------------------------------------------------------
(* The controller as a value. *)

Cur == [state |-> actState, alive |-> m_slave_alive, pdown |-> m_ccu_pdown,
        timer |-> m_act_timer, out |-> <<>>]

dispatch(s, m) == [s EXCEPT !.out = Append(@, m)]

\* Counter<double>::setTop: the countdown restarts from the present.
setTop(s, top) == [s EXCEPT !.timer = [last |-> now, top |-> top]]

\* Counter<double>::overflow
overflow(s) == now - s.timer.last >= s.timer.top

isActivating(s) == s.state = "Activating"

isActive(s) == s.state = "Active"

isDeactivating(s) == s.state = "Deactivating"

setEntityState(s, code) == dispatch(s, code)

sendPowerChannelControl(s, value) ==
  dispatch(s, IF value THEN "PCC_ON" ELSE "PCC_OFF")

setActiveParameter(s, value) ==
  dispatch(s, IF value THEN "SEP_ACTIVE_TRUE" ELSE "SEP_ACTIVE_FALSE")

sendPowerDown(s) == dispatch(s, "POP_PWR_DOWN_IP")

\* Clock::getSinceEpoch(), hundredths of a second.
getSinceEpoch == now * 100

\* Variant: the tolerance taken as a strict bound.
HeartbeatInSyncStrict(ts) == Abs(ts - getSinceEpoch) < Tolerance

HeartbeatInSync(ts) == Abs(ts - getSinceEpoch) <= Tolerance

\* Variant: the source of the heartbeat is not looked at.
consumeHeartbeatAnySource(s, src, ts) ==
  IF ~isActivating(s)
  THEN s
  ELSE IF HeartbeatInSync(ts) THEN [s EXCEPT !.alive = TRUE] ELSE s

consumeHeartbeat(s, src, ts) ==
  IF ~isActivating(s) \/ src # m_slave_id
  THEN s
  ELSE IF HeartbeatInSync(ts) THEN [s EXCEPT !.alive = TRUE] ELSE s

\* Variant: POWER_DOWN does not arm the timer.
consumePowerOperationNoArm(s, dst, op) ==
  IF dst # m_slave_id
  THEN s
  ELSE LET up == IF op = "POP_PWR_UP"
                 THEN sendPowerChannelControl([s EXCEPT !.pdown = FALSE], TRUE)
                 ELSE s
       IN  IF op = "POP_PWR_DOWN"
           THEN [sendPowerDown(up) EXCEPT !.pdown = TRUE]
           ELSE up

\* Variant: the POWER_UP branch runs on into the POWER_DOWN branch.
consumePowerOperationFallThrough(s, dst, op) ==
  IF dst # m_slave_id
  THEN s
  ELSE LET up == IF op = "POP_PWR_UP"
                 THEN sendPowerChannelControl([s EXCEPT !.pdown = FALSE], TRUE)
                 ELSE s
       IN  IF op \in {"POP_PWR_UP", "POP_PWR_DOWN"}
           THEN setTop([sendPowerDown(up) EXCEPT !.pdown = TRUE], deactTime)
           ELSE up

\* Variant: the destination of the power operation is not looked at.
consumePowerOperationAnyDestination(s, dst, op) ==
  LET up == IF op = "POP_PWR_UP"
            THEN sendPowerChannelControl([s EXCEPT !.pdown = FALSE], TRUE)
            ELSE s
  IN  IF op = "POP_PWR_DOWN"
      THEN setTop([sendPowerDown(up) EXCEPT !.pdown = TRUE], deactTime)
      ELSE up

consumePowerOperation(s, dst, op) ==
  IF dst # m_slave_id
  THEN s
  ELSE LET up == IF op = "POP_PWR_UP"
                 THEN sendPowerChannelControl([s EXCEPT !.pdown = FALSE], TRUE)
                 ELSE s
       IN  IF op = "POP_PWR_DOWN"
           THEN setTop([sendPowerDown(up) EXCEPT !.pdown = TRUE], deactTime)
           ELSE up

\* Variant: a pending power-down cascade is not cancelled.
onRequestActivationKeepCascade(s) ==
  setTop(sendPowerChannelControl([s EXCEPT !.alive = FALSE], TRUE), actTime)

\* Variant: m_slave_alive is kept from the attempt before.
onRequestActivationStaleAlive(s) ==
  setTop(sendPowerChannelControl([s EXCEPT !.pdown = FALSE], TRUE), actTime)

onRequestActivation(s) ==
  setTop(sendPowerChannelControl([s EXCEPT !.alive = FALSE, !.pdown = FALSE], TRUE),
         actTime)

onActivation(s) == setEntityState(s, "ES_ACTIVE")

\* Variant: the timer is not armed with the deactivation timeout.
onRequestDeactivationNoArm(s) ==
  sendPowerDown(setActiveParameter(s, FALSE))

onRequestDeactivation(s) ==
  setTop(sendPowerDown(setActiveParameter(s, FALSE)), deactTime)

onDeactivation(s) ==
  setEntityState(sendPowerChannelControl(s, FALSE), "ES_IDLE")

---------------------------------------------------------------------------
(* The activation primitives of the task framework. *)

requestActivation(s) ==
  IF s.state = "Idle" THEN onRequestActivation([s EXCEPT !.state = "Activating"]) ELSE s

activate(s) ==
  IF s.state = "Activating" THEN onActivation([s EXCEPT !.state = "Active"]) ELSE s

activationFailed(s) ==
  IF s.state = "Activating"
  THEN dispatch([s EXCEPT !.state = "Idle"], "ACTIVATION_FAILED")
  ELSE s

requestDeactivation(s) ==
  IF s.state = "Active" THEN onRequestDeactivation([s EXCEPT !.state = "Deactivating"]) ELSE s

deactivate(s) ==
  IF s.state = "Deactivating" THEN onDeactivation([s EXCEPT !.state = "Idle"]) ELSE s

---------------------------------------------------------------------------
(* The checks of the main loop. *)

\* Variant: an elapsed activation wait is started again.
checkActivationRetry(s) ==
  IF ~isActivating(s)
  THEN s
  ELSE IF overflow(s)
       THEN onRequestActivation(s)
       ELSE IF s.alive THEN setActiveParameter(activate(s), TRUE) ELSE s

\* Variant: liveness is looked at before the timer.
checkActivationLivenessFirst(s) ==
  IF ~isActivating(s)
  THEN s
  ELSE IF s.alive
       THEN setActiveParameter(activate(s), TRUE)
       ELSE IF overflow(s)
            THEN sendPowerChannelControl(activationFailed(s), FALSE)
            ELSE s

checkActivation(s) ==
  IF ~isActivating(s)
  THEN s
  ELSE IF overflow(s)
       THEN sendPowerChannelControl(activationFailed(s), FALSE)
       ELSE IF s.alive THEN setActiveParameter(activate(s), TRUE) ELSE s

\* Variant: the deactivation wait ends only after the deadline has passed.
checkDeactivationLate(s) ==
  IF ~isDeactivating(s)
  THEN s
  ELSE IF now - s.timer.last > s.timer.top THEN deactivate(s) ELSE s

checkDeactivation(s) ==
  IF ~isDeactivating(s)
  THEN s
  ELSE IF overflow(s) THEN deactivate(s) ELSE s

\* Variant: the channel is cut without waiting for the timer.
checkPowerDownNoWait(s) ==
  IF ~s.pdown
  THEN s
  ELSE setEntityState(sendPowerChannelControl(s, FALSE), "ES_IDLE")

checkPowerDown(s) ==
  IF ~s.pdown
  THEN s
  ELSE IF overflow(s)
       THEN setEntityState(sendPowerChannelControl(s, FALSE), "ES_IDLE")
       ELSE s

\* Variant: a task that is activating is reported as active.
reportStateActivating(s) ==
  IF isActive(s) \/ isActivating(s)
  THEN setEntityState(s, "ES_ACTIVE")
  ELSE setEntityState(s, "ES_IDLE")

reportState(s) ==
  IF isActive(s) THEN setEntityState(s, "ES_ACTIVE") ELSE setEntityState(s, "ES_IDLE")

\* Variant: the periodic report is made after the three checks.
onMainIterationReportLast(s) ==
  reportState(checkPowerDown(checkDeactivation(checkActivation(s))))

\* One iteration of the loop of onMain, after waitForMessages has returned.
onMainIteration(s) ==
  checkPowerDown(checkDeactivation(checkActivation(reportState(s))))

---------------------------------------------------------------------------
(* Observation of a handler's run. *)

IsChan(m) == m \in {"PCC_ON", "PCC_OFF"}

IsStatus(m) == m \in {"ES_ACTIVE", "ES_IDLE"}

Last(seq, dflt) == IF seq = <<>> THEN dflt ELSE seq[Len(seq)]

Stamp(seq) == [i \in DOMAIN seq |-> <<now, seq[i]>>]

Min(a, b) == IF a < b THEN a ELSE b

\* A heartbeat of the resolved slave whose time stamp is within 1.0 s of the
\* local clock.
Qualifying(e) ==
  e.kind = "Heartbeat" /\ e.id = m_slave_id /\ Abs(e.delta) <= 100

Addressed(e, op) ==
  e.kind = "PowerOperation" /\ e.id = m_slave_id /\ e.op = op

\* The inputs kept in sent: the requests of the framework, the power
\* operations and the qualifying heartbeats.
Logged(e) ==
  \/ e.kind \in {"requestActivation", "requestDeactivation", "PowerOperation"}
  \/ Qualifying(e)

\* The handler took the controller from Cur to s on input e; fired tells
\* whether checkPowerDown cut the channel.
Commit(s, e, fired) ==
  LET accAct == e.kind = "requestActivation" /\ actState = "Idle"
      accDeact == e.kind = "requestDeactivation" /\ actState = "Active"
      pdIdle == Addressed(e, "POP_PWR_DOWN") /\ actState = "Idle"
  IN  /\ actState' = s.state
      /\ m_slave_alive' = s.alive
      /\ m_ccu_pdown' = s.pdown
      /\ m_act_timer' = s.timer
      /\ out' = s.out
      /\ ev' = e
      /\ repeated' = (watch = "none" /\ e = ev)
      /\ lastChan' = Last(SelectSeq(s.out, IsChan), lastChan)
      /\ status' = Last(SelectSeq(s.out, IsStatus), status)
      /\ IF watch = "attempt"
         THEN /\ attemptReq' = IF accAct THEN now ELSE attemptReq
              /\ qualBefore' =
                   IF accAct THEN FALSE
                   ELSE qualBefore \/ (/\ Qualifying(e)
                                       /\ actState = "Activating"
                                       /\ now < attemptReq + actTime)
              /\ attemptFails' =
                   Min(2, (IF accAct THEN 0 ELSE attemptFails)
                            + Count(s.out, "ACTIVATION_FAILED"))
              /\ attemptOff' =
                   Min(2, (IF accAct THEN 0 ELSE attemptOff) + Count(s.out, "PCC_OFF"))
              /\ qualSeen' =
                   IF accAct THEN FALSE
                   ELSE qualSeen \/ (Qualifying(e) /\ actState = "Activating")
         ELSE UNCHANGED <<attemptReq, qualBefore, attemptFails, attemptOff, qualSeen>>
      /\ IF watch = "deactivation"
         THEN deactReq' = IF accDeact THEN now ELSE deactReq
         ELSE UNCHANGED deactReq
      /\ IF watch = "cascade"
         THEN /\ firstPd' =
                   IF accAct \/ Addressed(e, "POP_PWR_UP") THEN NoTime
                   ELSE IF pdIdle /\ firstPd = NoTime THEN now ELSE firstPd
              /\ lastPd' =
                   IF accAct \/ Addressed(e, "POP_PWR_UP") THEN NoTime
                   ELSE IF pdIdle THEN now ELSE lastPd
              /\ cascadeFires' =
                   IF Addressed(e, "POP_PWR_DOWN") THEN 0
                   ELSE Min(2, cascadeFires + (IF fired THEN 1 ELSE 0))
         ELSE UNCHANGED <<firstPd, lastPd, cascadeFires>>
      /\ IF watch = "grace"
         THEN lastIp' = IF accAct THEN NoTime
                        ELSE IF Has(s.out, "POP_PWR_DOWN_IP") THEN now ELSE lastIp
         ELSE UNCHANGED lastIp
      /\ IF watch = "sent"
         THEN sent' = sent \o Stamp((IF Logged(e) THEN <<e.kind>> ELSE <<>>)
                                      \o SelectSeq(s.out, LAMBDA m : ~IsStatus(m)))
         ELSE UNCHANGED sent
      /\ UNCHANGED <<m_slave_id, actTime, deactTime, stopped, watch>>
      /\ UNCHANGED reporterVars

---------------------------------------------------------------------------
(* Actions. *)

\* The framework asks for activation (the Active parameter is set).
RequestActivation ==
  /\ ~stopped
  /\ Commit(requestActivation(Cur), Event("requestActivation", 0, "", 0), FALSE)
  /\ polled' = FALSE
  /\ now' = now

\* The framework asks for deactivation (the Active parameter is cleared).
RequestDeactivation ==
  /\ ~stopped
  /\ Commit(requestDeactivation(Cur), Event("requestDeactivation", 0, "", 0), FALSE)
  /\ polled' = FALSE
  /\ now' = now

\* waitForMessages delivers a heartbeat of system src stamped delta away
\* from the local clock.
Heartbeat(src, delta) ==
  /\ ~stopped
  /\ Commit(consumeHeartbeat(Cur, src, getSinceEpoch + delta),
            Event("Heartbeat", src, "", delta), FALSE)
  /\ polled' = FALSE
  /\ now' = now

\* waitForMessages delivers a power operation for system dst.
PowerOperation(dst, op) ==
  /\ ~stopped
  /\ Commit(consumePowerOperation(Cur, dst, op),
            Event("PowerOperation", dst, op, 0), FALSE)
  /\ polled' = FALSE
  /\ now' = now

\* waitForMessages returns and the body of the loop runs.
Poll ==
  /\ ~stopped
  /\ ~polled
  /\ LET s3 == checkDeactivation(checkActivation(reportState(Cur)))
     IN  Commit(onMainIteration(Cur), Event("Poll", 0, "", 0), checkPowerDown(s3) # s3)
  /\ polled' = TRUE
  /\ now' = now

\* One second passes with the loop waiting; the wait then times out.
TickTo(max) ==
  /\ ~stopped
  /\ polled
  /\ now < max
  /\ now' = now + 1
  /\ polled' = FALSE
  /\ out' = <<>>
  /\ ev' = Event("Tick", 0, "", 0)
  /\ repeated' = FALSE
  /\ UNCHANGED <<actState, m_slave_alive, m_ccu_pdown, m_act_timer, m_slave_id,
                 actTime, deactTime, stopped, lastChan, status, attemptReq,
                 qualBefore, attemptFails, attemptOff, deactReq, firstPd, lastPd,
                 cascadeFires, watch, sent, qualSeen, lastIp>>
  /\ UNCHANGED reporterVars

Tick == TickTo(MaxTime)

\* stopping() holds at the head of the loop: onMain returns.
Stop ==
  /\ ~stopped
  /\ polled
  /\ stopped' = TRUE
  /\ out' = <<>>
  /\ ev' = Event("Stop", 0, "", 0)
  /\ repeated' = FALSE
  /\ UNCHANGED <<now, actState, m_slave_alive, m_ccu_pdown, m_act_timer, m_slave_id,
                 actTime, deactTime, polled, lastChan, status, attemptReq,
                 qualBefore, attemptFails, attemptOff, deactReq, firstPd, lastPd,
                 cascadeFires, watch, sent, qualSeen, lastIp>>
  /\ UNCHANGED reporterVars

\* The report supervisor is another task; the runs of the power controller
\* leave it as constructed.
ReporterAbsent ==
  /\ m_id = 0
  /\ m_dispatcher = {}
  /\ loopback = <<>>
  /\ replies = <<>>
  /\ entityState = "NONE"
  /\ lastMsg = [op |-> "NONE", ci |-> "NONE"]
  /\ handled = 0

InitController ==
  /\ now = 0
  /\ actState = "Idle"
  /\ m_slave_alive = FALSE
  /\ m_ccu_pdown = FALSE
  /\ m_act_timer = [last |-> 0, top |-> 0]
  /\ stopped = FALSE
  /\ polled = FALSE
  /\ out = <<>>
  /\ ev = Event("Init", 0, "", 0)
  /\ repeated = FALSE
  /\ lastChan = "NONE"
  /\ status = "NONE"
  /\ attemptReq = NoTime
  /\ qualBefore = FALSE
  /\ attemptFails = 0
  /\ attemptOff = 0
  /\ deactReq = NoTime
  /\ firstPd = NoTime
  /\ lastPd = NoTime
  /\ cascadeFires = 0
  /\ qualSeen = FALSE
  /\ lastIp = NoTime
  /\ sent = <<>>

\* The configuration: the resolved slave and the two timeouts of the framework.
InitConfig ==
  /\ m_slave_id = 42
  /\ actTime \in 1..MaxActivationTime
  /\ deactTime \in 1..MaxDeactivationTime

Init == InitController /\ InitConfig /\ ReporterAbsent /\ watch = "none"

InitAttempt == InitController /\ InitConfig /\ ReporterAbsent /\ watch = "attempt"

InitDeactivation == InitController /\ InitConfig /\ ReporterAbsent /\ watch = "deactivation"

InitCascade == InitController /\ InitConfig /\ ReporterAbsent /\ watch = "cascade"

InitGrace == InitController /\ InitConfig /\ ReporterAbsent /\ watch = "grace"

Next ==
  \/ RequestActivation
  \/ RequestDeactivation
  \/ \E src \in SystemIds, delta \in Deltas : Heartbeat(src, delta)
  \/ \E dst \in SystemIds, op \in PowerOps : PowerOperation(dst, op)
  \/ Poll
  \/ Tick
  \/ Stop

Spec == Init /\ [][Next]_vars

SpecAttempt == InitAttempt /\ [][Next]_vars

SpecDeactivation == InitDeactivation /\ [][Next]_vars

SpecCascade == InitCascade /\ [][Next]_vars

SpecGrace == InitGrace /\ [][Next]_vars

---------------------------------------------------------------------------
(* The end-to-end scenario: slave 42, activation timeout 30 s,             *)
(* deactivation timeout 10 s; activation is requested at 0 s, one          *)
(* qualifying heartbeat of the slave arrives at 5 s, deactivation is       *)
(* requested at 10 s.  Heartbeats of other systems, and heartbeats of the  *)
(* slave out of tolerance, may arrive at any time.                         *)

InSent(t, what) == Has(sent, <<t, what>>)

InitE2E ==
  /\ InitController
  /\ m_slave_id = 42
  /\ actTime = 30
  /\ deactTime = 10
  /\ watch = "sent"
  /\ ReporterAbsent

E2ERequestActivation ==
  /\ now = 0
  /\ ~InSent(0, "requestActivation")
  /\ RequestActivation

E2EHeartbeat ==
  \E src \in SystemIds, delta \in Deltas :
    /\ (src = m_slave_id /\ Abs(delta) <= 100) =>
         (now = 5 /\ ~InSent(5, "Heartbeat"))
    /\ Heartbeat(src, delta)

E2ERequestDeactivation ==
  /\ now = 10
  /\ ~InSent(10, "requestDeactivation")
  /\ RequestDeactivation

E2ETick ==
  /\ now = 0 => InSent(0, "requestActivation")
  /\ now = 5 => InSent(5, "Heartbeat")
  /\ now = 10 => InSent(10, "requestDeactivation")
  /\ TickTo(E2EMaxTime)

NextE2E ==
  \/ E2ERequestActivation
  \/ E2EHeartbeat
  \/ E2ERequestDeactivation
  \/ Poll
  \/ E2ETick

SpecE2E == InitE2E /\ [][NextE2E]_vars

---------------------------------------------------------------------------
(* The report supervisor, Supervisors/Reporter.  Dispatcher.hpp and        *)
(* Ticket.hpp are not among the sources: a dispatcher is the set of the    *)
(* tickets it holds, a ticket is its sequence id and the interface of the  *)
(* request it was made from, and two tickets match when the interfaces are *)
(* the same.                                                               *)

\* ReportControl messages consumed in a run.
MaxReports == 4
\* ReportControl messages the task may have in flight to itself.
MaxLoopback == 1

\* Values of uint16_t.
UInt16 == 65536

\* Operation codes of IMC::ReportControl.
ReportOps == {"OP_REQUEST_START", "OP_STARTED", "OP_REQUEST_STOP", "OP_STOPPED",
              "OP_REQUEST_REPORT", "OP_REPORT_SENT"}

\* Communication interfaces of IMC::ReportControl.
Interfaces == {"CI_ACOUSTIC", "CI_SATELLITE"}

ReportControlMsg(op, ci) == [op |-> op, ci |-> ci]

\* m_id is not initialised by the constructor: any 16-bit value, of which
\* these are tried.
InitialIds == {0, 1, UInt16 - 2, UInt16 - 1}

\* The reporter as a value.
Rep ==
  [id |-> m_id, tickets |-> m_dispatcher, loop |-> loopback, replies |-> <<>>,
   code |-> entityState]

Ticket(id, msg) == [id |-> id, ci |-> msg.ci]

add(d, t) == d \cup {t}

remove(d, t) == {u \in d : u.ci # t.ci}

clearAcoustic(d) == {u \in d : u.ci # "CI_ACOUSTIC"}

isEmpty(d) == d = {}

run(d) == d

dispatchReply(r, rc) == [r EXCEPT !.replies = Append(@, rc)]

\* The two branches that end onUpdateParameters and consume.
reportDispatcherState(r) ==
  [r EXCEPT !.code = IF isEmpty(r.tickets) THEN "CODE_IDLE" ELSE "CODE_ACTIVE"]

onUpdateParametersReporter(r, changed, acoustic) ==
  reportDispatcherState(
    IF ~changed
    THEN r
    ELSE IF acoustic
         THEN [r EXCEPT !.loop = Append(@, ReportControlMsg("OP_REQUEST_START",
                                                            "CI_ACOUSTIC"))]
         ELSE [r EXCEPT !.tickets = clearAcoustic(@)])

\* Variant: a stop request is not answered.
consumeReportControlSilentStop(r, msg) ==
  reportDispatcherState(
    IF msg.op = "OP_REQUEST_START"
    THEN dispatchReply([r EXCEPT !.tickets = add(@, Ticket(r.id, msg)),
                                 !.id = (@ + 1) % UInt16],
                       [msg EXCEPT !.op = "OP_STARTED"])
    ELSE IF msg.op = "OP_REQUEST_STOP"
         THEN [r EXCEPT !.tickets = remove(@, Ticket(r.id, msg)),
                        !.id = (@ + 1) % UInt16]
         ELSE r)

consumeReportControl(r, msg) ==
  reportDispatcherState(
    IF msg.op = "OP_REQUEST_START"
    THEN dispatchReply([r EXCEPT !.tickets = add(@, Ticket(r.id, msg)),
                                 !.id = (@ + 1) % UInt16],
                       [msg EXCEPT !.op = "OP_STARTED"])
    ELSE IF msg.op = "OP_REQUEST_STOP"
         THEN dispatchReply([r EXCEPT !.tickets = remove(@, Ticket(r.id, msg)),
                                      !.id = (@ + 1) % UInt16],
                            [msg EXCEPT !.op = "OP_STOPPED"])
         ELSE r)

\* The reporter goes from Rep to r.
CommitReporter(r) ==
  /\ m_id' = r.id
  /\ m_dispatcher' = r.tickets
  /\ loopback' = r.loop
  /\ replies' = r.replies
  /\ entityState' = r.code
  /\ UNCHANGED ledconVars

\* A ReportControl message of another task is consumed.
ReportControl(op, ci) ==
  /\ handled < MaxReports
  /\ CommitReporter(consumeReportControl(Rep, ReportControlMsg(op, ci)))
  /\ lastMsg' = ReportControlMsg(op, ci)
  /\ handled' = handled + 1

\* The oldest message the task sent to itself is consumed.
LoopbackDelivery ==
  /\ handled < MaxReports
  /\ loopback # <<>>
  /\ CommitReporter(consumeReportControl([Rep EXCEPT !.loop = Tail(@)], Head(loopback)))
  /\ lastMsg' = Head(loopback)
  /\ handled' = handled + 1

\* The framework reports the parameters; changed tells whether one of the
\* two acoustic parameters has a new value.
UpdateParameters(changed, acoustic) ==
  /\ Len(loopback) < MaxLoopback
  /\ CommitReporter(onUpdateParametersReporter(Rep, changed, acoustic))
  /\ UNCHANGED <<lastMsg, handled>>

\* The main loop wakes with no message and runs the dispatcher.
DispatcherRun ==
  /\ CommitReporter([Rep EXCEPT !.tickets = run(@)])
  /\ UNCHANGED <<lastMsg, handled>>

InitReporter ==
  /\ InitController
  /\ m_slave_id = 42
  /\ actTime = 1
  /\ deactTime = 1
  /\ watch = "none"
  /\ m_id \in InitialIds
  /\ m_dispatcher = {}
  /\ loopback = <<>>
  /\ replies = <<>>
  /\ entityState = "NONE"
  /\ lastMsg = ReportControlMsg("NONE", "NONE")
  /\ handled = 0

NextReporter ==
  \/ \E op \in ReportOps, ci \in Interfaces : ReportControl(op, ci)
  \/ LoopbackDelivery
  \/ \E changed \in BOOLEAN, acoustic \in BOOLEAN : UpdateParameters(changed, acoustic)
  \/ DispatcherRun

SpecReporter == InitReporter /\ [][NextReporter]_vars

---------------------------------------------------------------------------
(* Properties. *)

Controller == <<actState, m_slave_alive, m_ccu_pdown, m_act_timer>>

\* The activation attempt begun at attemptReq is over.
AttemptOver == attemptReq # NoTime /\ actState # "Activating"

\* C1 (SpecAttempt): an activation attempt in which no qualifying heartbeat
\* arrived before the activation timeout elapsed ends with exactly one
\* activation failure reported and the channel commanded OFF, whatever other
\* messages arrived during the attempt; and no attempt reports more than one
\* failure.
C1_TimeoutFailsAttemptOnce ==
  /\ attemptFails <= 1
  /\ (AttemptOver /\ ~qualBefore) => (attemptFails = 1 /\ attemptOff >= 1)

\* C2 (Spec): a heartbeat handled while the activation state is not
\* Activating, or coming from a system other than the resolved slave, leaves
\* the activation state, m_slave_alive, m_ccu_pdown and the timer as they
\* were and dispatches nothing, whatever its time stamp.
C2_HeartbeatIgnored ==
  [][(ev'.kind = "Heartbeat" /\ (actState # "Activating" \/ ev'.id # m_slave_id))
       => (Controller' = Controller /\ out' = <<>>)]_vars

\* C2 witness: a heartbeat of another system, stamped within tolerance, has
\* been handled while Activating and m_slave_alive is still false.
C2_Witness ==
  /\ ev.kind = "Heartbeat"
  /\ ev.id # m_slave_id
  /\ Abs(ev.delta) <= 100
  /\ actState = "Activating"
  /\ ~m_slave_alive

\* C3 (Spec): while Activating, a heartbeat of the resolved slave leaves
\* m_slave_alive true if its time stamp is at most 1.0 s ahead of or behind
\* the local clock (1.0 s included), and leaves m_slave_alive as it was
\* otherwise (1.01 s); it changes nothing else.
C3_LivenessTolerance ==
  [][(ev'.kind = "Heartbeat" /\ actState = "Activating" /\ ev'.id = m_slave_id)
       => /\ m_slave_alive' = (m_slave_alive \/ ev'.delta \in {-100, 100})
          /\ ev'.delta \in {-101, 101} => m_slave_alive' = m_slave_alive
          /\ <<actState, m_ccu_pdown, m_act_timer>>' = <<actState, m_ccu_pdown, m_act_timer>>
          /\ out' = <<>>]_vars

\* C3 witness: a heartbeat of the slave stamped exactly 1.0 s behind the local
\* clock has been handled while Activating, and m_slave_alive is true.
C3_Witness ==
  /\ ev = Event("Heartbeat", m_slave_id, "", -100)
  /\ actState = "Activating"
  /\ m_slave_alive

\* C4 (SpecDeactivation): a deactivation accepted at deactReq has reached Idle
\* by deactReq + deactTime + one poll interval, whatever heartbeats and power
\* operations arrive while Deactivating.
C4_DeactivationCompletesInTime ==
  actState = "Deactivating" => now <= deactReq + deactTime + PollInterval

\* C5 as stated (SpecCascade): after an addressed POWER_DOWN taken while Idle
\* at firstPd, with no POWER_UP or activation request since, every poll at or
\* after firstPd + deactTime commands the channel OFF.
C5_CutOffAfterFirstPowerDown ==
  (ev.kind = "Poll" /\ firstPd # NoTime /\ now >= firstPd + deactTime)
    => Has(out, "PCC_OFF")

\* C5 amended (SpecCascade): an addressed POWER_DOWN taken while Idle
\* dispatches the in-place power-down, sets m_ccu_pdown and arms the timer
\* with the deactivation timeout; as long as no POWER_UP or activation request
\* follows, the activation state stays Idle and a poll commands the channel
\* OFF exactly when the deactivation timeout has elapsed since the most
\* recent such POWER_DOWN (lastPd).
C5_CascadeFromIdle ==
  lastPd # NoTime =>
    /\ actState = "Idle"
    /\ m_ccu_pdown
    /\ m_act_timer = [last |-> lastPd, top |-> deactTime]
    /\ Addressed(ev, "POP_PWR_DOWN") => out = <<"POP_PWR_DOWN_IP">>
    /\ ev.kind = "Poll" => (Has(out, "PCC_OFF") <=> now >= lastPd + deactTime)

\* C5 witness: the poll at which the grace period of a single POWER_DOWN
\* taken while Idle ends has commanded the channel OFF.
C5_Witness ==
  /\ ev.kind = "Poll"
  /\ lastPd # NoTime
  /\ firstPd = lastPd
  /\ now = lastPd + deactTime
  /\ Has(out, "PCC_OFF")
  /\ actState = "Idle"

\* C6 (Spec): an addressed POWER_UP handled right after another leaves the
\* activation state, m_slave_alive, m_ccu_pdown (false) and the timer as the
\* first left them; each of the two dispatches one channel ON and nothing
\* else.
C6_PowerUpIdempotent ==
  [][(Addressed(ev, "POP_PWR_UP") /\ Addressed(ev', "POP_PWR_UP"))
       => /\ Controller' = Controller
          /\ ~m_ccu_pdown'
          /\ out = <<"PCC_ON">>
          /\ out' = <<"PCC_ON">>]_vars

\* C6 witness: two addressed POWER_UP have been handled in a row, the first
\* of them in the middle of an activation wait.
C6_Witness ==
  /\ Addressed(ev, "POP_PWR_UP")
  /\ repeated
  /\ actState = "Activating"
  /\ out = <<"PCC_ON">>

\* What the scenario logs, in order.
E2ELog ==
  << <<0, "requestActivation">>, <<0, "PCC_ON">>,
     <<5, "Heartbeat">>, <<5, "SEP_ACTIVE_TRUE">>,
     <<10, "requestDeactivation">>, <<10, "SEP_ACTIVE_FALSE">>,
     <<10, "POP_PWR_DOWN_IP">>,
     <<20, "PCC_OFF">> >>

\* C7 (SpecE2E): in the scenario, the activation request at 0 s dispatches
\* channel ON at 0 s; the heartbeat at 5 s is followed by
\* SetEntityParameters(Active=true) and the task is Active and reports ACTIVE
\* from the next poll on (by 6 s); the deactivation request at 10 s dispatches
\* SetEntityParameters(Active=false) and the in-place power-down at once and
\* arms the timer for 20 s; the poll at 20 s dispatches channel OFF and
\* reports IDLE; no other command is dispatched, so no channel OFF before
\* 20 s.
C7_EndToEnd ==
  /\ Len(sent) <= Len(E2ELog) /\ sent = SubSeq(E2ELog, 1, Len(sent))
  /\ InSent(0, "requestActivation") => Len(sent) >= 2
  /\ (InSent(5, "Heartbeat") /\ (polled \/ now >= 6)) =>
       /\ Len(sent) >= 4
       /\ now < 10 => (actState = "Active" /\ status = "ES_ACTIVE")
  /\ InSent(10, "requestDeactivation") =>
       /\ Len(sent) >= 7
       /\ now < 20 => (actState = "Deactivating"
                       /\ m_act_timer.last + m_act_timer.top = 20)
  /\ ((now = 20 /\ polled) \/ now > 20) =>
       (sent = E2ELog /\ actState = "Idle" /\ status = "ES_IDLE")

\* C7 witness: the poll at 20 s has run, and the whole scenario is logged.
C7_Witness ==
  /\ now = 20
  /\ ev.kind = "Poll"
  /\ sent = E2ELog
  /\ status = "ES_IDLE"

\* C8 (Spec): when the main loop has returned on the stop signal with the
\* activation state Activating or Deactivating, the last channel command
\* dispatched is OFF.
C8_StopLeavesChannelOff ==
  (stopped /\ actState \in {"Activating", "Deactivating"}) => lastChan = "PCC_OFF"

\* C9 (SpecAttempt): channel ON is dispatched only by an activation request or
\* an addressed POWER_UP; and once an activation failure has been reported,
\* every handler run before the next activation request, other than an
\* addressed POWER_UP, dispatches no channel ON, reports no activation
\* failure, leaves the task out of Activating, and leaves the timer alone
\* unless it is an addressed POWER_DOWN arming the deactivation timeout.
C9_NoAutomaticRetry ==
  [][/\ Has(out', "PCC_ON") =>
          (ev'.kind = "requestActivation" \/ Addressed(ev', "POP_PWR_UP"))
     /\ (attemptFails >= 1 /\ ev'.kind # "requestActivation"
           /\ ~Addressed(ev', "POP_PWR_UP")) =>
          /\ ~Has(out', "PCC_ON")
          /\ ~Has(out', "ACTIVATION_FAILED")
          /\ actState' # "Activating"
          /\ m_act_timer' # m_act_timer =>
               (Addressed(ev', "POP_PWR_DOWN")
                  /\ m_act_timer' = [last |-> now, top |-> deactTime])]_vars

\* C9 witness: a poll has run a second or more after the poll that reported
\* the activation failure; the task is Idle and the poll reported no failure.
C9_Witness ==
  /\ ev.kind = "Poll"
  /\ attemptFails = 1
  /\ now > attemptReq + actTime
  /\ now > m_act_timer.last + m_act_timer.top
  /\ actState = "Idle"
  /\ out = <<"ES_IDLE">>

\* C10 (SpecCascade): checkPowerDown cuts the channel at most once between
\* two addressed POWER_DOWN.
C10_CascadeCutsOnce == cascadeFires <= 1

\* The timer has run out.
Elapsed == now >= m_act_timer.last + m_act_timer.top

\* The status that goes with the activation state.
StatusOf(state) == IF state = "Active" THEN "ES_ACTIVE" ELSE "ES_IDLE"

\* C11 as stated (Spec): after every poll the last entity state reported is
\* ACTIVE if the activation state is Active and IDLE otherwise.
C11_StatusFollowsState ==
  ev.kind = "Poll" => status = StatusOf(actState)

\* C11 amended (Spec): after every poll the last entity state reported is
\* ACTIVE if the activation state is Active and IDLE otherwise, except that a
\* poll in which the power-down cascade cuts the channel (m_ccu_pdown set and
\* the timer run out) ends with IDLE reported whatever the activation state.
C11_StatusAfterPoll ==
  ev.kind = "Poll" =>
    status = IF m_ccu_pdown /\ Elapsed THEN "ES_IDLE" ELSE StatusOf(actState)

\* C11 witness: a poll has ended with IDLE reported while the task is Active,
\* the cascade having cut the channel.
C11_Witness ==
  /\ ev.kind = "Poll"
  /\ actState = "Active"
  /\ m_ccu_pdown
  /\ status = "ES_IDLE"
  /\ out = <<"ES_ACTIVE", "PCC_OFF", "ES_IDLE">>

\* What the activation check of a poll dispatches.
ActivationPart ==
  IF actState # "Activating" THEN <<>>
  ELSE IF Elapsed THEN <<"ACTIVATION_FAILED", "PCC_OFF">>
  ELSE IF m_slave_alive THEN <<"ES_ACTIVE", "SEP_ACTIVE_TRUE">>
  ELSE <<>>

\* What the deactivation check of a poll dispatches.
DeactivationPart ==
  IF actState = "Deactivating" /\ Elapsed THEN <<"PCC_OFF", "ES_IDLE">> ELSE <<>>

\* What the cascade check of a poll dispatches.
CascadePart ==
  IF m_ccu_pdown /\ Elapsed THEN <<"PCC_OFF", "ES_IDLE">> ELSE <<>>

\* C12 as stated (Spec): a poll dispatches what the activation check, the
\* deactivation check and the cascade check dispatch, in this order, and then
\* the one periodic report, which tells the activation state the checks left.
C12_ChecksThenReport ==
  [][ev'.kind = "Poll" =>
       out' = ActivationPart \o DeactivationPart \o CascadePart
                \o <<StatusOf(actState')>>]_vars

\* C12 amended (Spec): a poll dispatches first the one periodic report, which
\* tells the activation state the poll found, and then what the activation
\* check, the deactivation check and the cascade check dispatch, in this
\* order, each run once.
C12_ReportThenChecks ==
  [][ev'.kind = "Poll" =>
       out' = <<StatusOf(actState)>> \o ActivationPart \o DeactivationPart
                \o CascadePart]_vars

\* C12 witness: a poll has reported IDLE, then failed the activation, then
\* cut the channel for the cascade.
C12_Witness ==
  /\ ev.kind = "Poll"
  /\ out = <<"ES_IDLE", "ACTIVATION_FAILED", "PCC_OFF", "PCC_OFF", "ES_IDLE">>

\* C13 (SpecCascade): an activation request taken while Idle leaves
\* m_slave_alive and m_ccu_pdown false, dispatches exactly one channel ON and
\* arms the timer to run out actTime later, whatever these fields were;
\* m_ccu_pdown is set again only by an addressed POWER_DOWN; and a poll that
\* finds m_ccu_pdown false commands the channel OFF only to fail an activation
\* or to complete a deactivation.
C13_ActivationRequestResets ==
  [][/\ (ev'.kind = "requestActivation" /\ actState = "Idle") =>
          /\ actState' = "Activating"
          /\ ~m_slave_alive'
          /\ ~m_ccu_pdown'
          /\ out' = <<"PCC_ON">>
          /\ m_act_timer' = [last |-> now, top |-> actTime]
     /\ (m_ccu_pdown' /\ ~m_ccu_pdown) => Addressed(ev', "POP_PWR_DOWN")
     /\ (ev'.kind = "Poll" /\ ~m_ccu_pdown) =>
          Count(out', "PCC_OFF") =
            IF actState \in {"Activating", "Deactivating"} /\ Elapsed THEN 1 ELSE 0]_vars

\* C13 witness: an activation request has been taken after a power-down
\* cascade had cut the channel; the cascade is cancelled and the timer armed.
C13_Witness ==
  /\ ev.kind = "requestActivation"
  /\ cascadeFires >= 1
  /\ out = <<"PCC_ON">>
  /\ ~m_ccu_pdown
  /\ ~m_slave_alive
  /\ m_act_timer = [last |-> now, top |-> actTime]

\* C14 (Spec): a poll that finds the task Activating with the timer run out
\* reports the activation failure and commands the channel OFF, and neither
\* makes the task Active nor dispatches SetEntityParameters(Active=true), even
\* with m_slave_alive true; a poll makes the task Active, dispatching
\* SetEntityParameters(Active=true) and reporting no failure, exactly when it
\* finds it Activating with m_slave_alive true and the timer not run out.
C14_TimeoutBeforeLiveness ==
  [][(ev'.kind = "Poll" /\ actState = "Activating") =>
       /\ Elapsed =>
            /\ Count(out', "ACTIVATION_FAILED") = 1
            /\ Has(out', "PCC_OFF")
            /\ ~Has(out', "SEP_ACTIVE_TRUE")
            /\ actState' = "Idle"
       /\ ~Elapsed =>
            /\ ~Has(out', "ACTIVATION_FAILED")
            /\ actState' = IF m_slave_alive THEN "Active" ELSE "Activating"
            /\ Count(out', "SEP_ACTIVE_TRUE") = IF m_slave_alive THEN 1 ELSE 0]_vars

\* C14 witness: a poll has failed the activation although m_slave_alive was
\* true (the handlers of a poll leave m_slave_alive alone).
C14_Witness ==
  /\ ev.kind = "Poll"
  /\ m_slave_alive
  /\ Has(out, "ACTIVATION_FAILED")
  /\ Has(out, "PCC_OFF")
  /\ actState = "Idle"

\* C15 (SpecAttempt): a poll reports an activation failure only when actTime
\* or more has passed since the activation request of the attempt, and no
\* poll run at or after attemptReq + actTime leaves the task Activating,
\* whatever power operations arrived during the attempt.
C15_TimeoutAloneFailsAttempt ==
  /\ (ev.kind = "Poll" /\ Has(out, "ACTIVATION_FAILED")) => now >= attemptReq + actTime
  /\ (ev.kind = "Poll" /\ actState = "Activating") => now < attemptReq + actTime

\* C16 (Spec): a power operation for another system, or with an operation
\* code other than POWER_UP and POWER_DOWN, leaves the activation state,
\* m_slave_alive, m_ccu_pdown and the timer as they were and dispatches
\* nothing (no failure among it); and no power operation changes the
\* activation state or m_slave_alive.
C16_PowerOperationIgnored ==
  [][ev'.kind = "PowerOperation" =>
       /\ actState' = actState
       /\ m_slave_alive' = m_slave_alive
       /\ (ev'.id # m_slave_id \/ ev'.op \notin {"POP_PWR_UP", "POP_PWR_DOWN"}) =>
            (Controller' = Controller /\ out' = <<>>)]_vars

\* C16 witness: a POWER_DOWN for another system has been handled while the
\* task is Active, and m_ccu_pdown is still false.
C16_Witness ==
  /\ ev.kind = "PowerOperation"
  /\ ev.id # m_slave_id
  /\ ev.op = "POP_PWR_DOWN"
  /\ actState = "Active"
  /\ ~m_ccu_pdown
  /\ out = <<>>

\* C17 (SpecAttempt): a step from Activating to Active is taken only after a
\* qualifying heartbeat was handled in the same attempt, and it dispatches
\* SetEntityParameters(Active=true) exactly once; that message is dispatched
\* by no other step.
C17_ConfirmedByHeartbeatOfAttempt ==
  [][/\ (actState = "Activating" /\ actState' = "Active") =>
          (qualSeen /\ Count(out', "SEP_ACTIVE_TRUE") = 1)
     /\ Has(out', "SEP_ACTIVE_TRUE") =>
          (actState = "Activating" /\ actState' = "Active")]_vars

\* C17 witness: an attempt requested after second 0 has just been confirmed
\* by a poll, after a qualifying heartbeat of that attempt.
C17_Witness ==
  /\ ev.kind = "Poll"
  /\ actState = "Active"
  /\ Has(out, "SEP_ACTIVE_TRUE")
  /\ qualSeen
  /\ attemptReq > 0
  /\ lastChan = "PCC_ON"

\* C18 as stated (Spec): whenever the task is Active, the last channel
\* command dispatched is ON.
C18_ActiveMeansChannelOn == actState = "Active" => lastChan = "PCC_ON"

\* C18 (Spec): after every step that leaves the task Active, the last channel
\* command dispatched is ON or an addressed POWER_DOWN is pending; and the
\* last command of an Active task becomes OFF only in a poll taken with the
\* POWER_DOWN pending and the timer run out, that is, by checkPowerDown, which
\* leaves the activation state as it is.
C18_ActiveMeansChannelOnUntilCascade ==
  [][/\ actState' = "Active" => (lastChan' = "PCC_ON" \/ m_ccu_pdown')
     /\ (actState' = "Active" /\ lastChan' = "PCC_OFF" /\ lastChan # "PCC_OFF") =>
          (ev'.kind = "Poll" /\ actState = "Active" /\ m_ccu_pdown /\ Elapsed)]_vars

\* C18 witness: the task is Active and checkPowerDown has just cut the
\* channel.
C18_Witness ==
  /\ ev.kind = "Poll"
  /\ actState = "Active"
  /\ Has(out, "PCC_OFF")
  /\ lastChan = "PCC_OFF"

\* C19 (SpecGrace): a handler that dispatches a channel OFF command runs no
\* earlier than deactTime seconds after the last power-down-in-place
\* directive sent since the last accepted activation request, and it does
\* not leave the task Deactivating; a handler that starts in Deactivating and
\* dispatches OFF is the poll that completes the deactivation.
C19_GracePeriod ==
  [][Has(out', "PCC_OFF") =>
       /\ lastIp' # NoTime => now' >= lastIp' + deactTime
       /\ actState' # "Deactivating"
       /\ actState = "Deactivating" => (ev'.kind = "Poll" /\ actState' = "Idle")]_vars

\* C19 witness: a poll cuts the channel exactly deactTime seconds after the
\* last power-down-in-place directive, which was sent after second 0.
C19_Witness ==
  /\ ev.kind = "Poll"
  /\ Has(out, "PCC_OFF")
  /\ lastIp > 0
  /\ now = lastIp + deactTime

=============================================================================
